---- MODULE Spec2Model ----
(***************************************************************************)
(* Model of convert_models.py (ModelConverter) and of the tensor-range     *)
(* test in tests/test_convert_models_fix.py.                               *)
(*                                                                         *)
(* The script is sequential.  Every library call (check_loaded,            *)
(* from_pretrained, the processors, torch.onnx.export, YOLO.export,        *)
(* Path.rename) is an input of the model: it either returns ("ok") or      *)
(* raises an Exception ("raise").  A raising export writes no file.        *)
(* The imports have three outcomes, see ImportOutcome.                     *)
(* The directory that contains the output directory is taken to exist, so  *)
(* mkdir in __init__ and open() in save_model_config return normally.      *)
(*                                                                         *)
(* Tensor elements are numerators over the denominator Den = 2^RandBits:   *)
(* the element value is num / Den.  A tensor is represented by its shape   *)
(* and a bounded number of its elements (arbitrary positions): NSamples    *)
(* for the placeholders of the exports, TestSamples for the test's.        *)
(* Console marks: the check mark is written "[ok]", the cross "[fail]";    *)
(* the interpolated exception text is dropped.                             *)
(***************************************************************************)
EXTENDS Integers, Sequences, FiniteSets, TLC

\* ---------------------------------------------------------------- bounds
RandBits == 2
NSamples == 1
TestSamples == 2

Den == 2 ^ RandBits

\* ------------------------------------------------------------ file names
YOLO_ONNX == "yolo11m-seg.onnx"
CLIP_TEXT_ONNX == "clip_text_encoder.onnx"
CLIP_VISION_ONNX == "clip_vision_encoder.onnx"
\* the CLIPSeg export under another file name
CLIPSEG_ONNX_renamed == "clipseg_model.onnx"
CLIPSEG_ONNX == "clipseg.onnx"
CONFIG_JSON == "config.json"

\* Path(__file__).parent / "browser-extension/models", as path components
OUTPUT_DIR == <<"browser-extension", "models">>

CLIP_SHAPE == <<1, 3, 224, 224>>
CLIPSEG_SHAPE == <<1, 3, 352, 352>>

\* -------------------------------------------------------------- messages
MSG_IMPORT_ERROR == "Error importing required packages"
MSG_IMPORT_HINT == "Please install the required dependencies first:"
MSG_IMPORT_PIP == "pip install -r requirements.txt"
MSG_OUTPUT_DIR == "Output directory"
MSG_START == "Starting model conversion..."
MSG_LOADING == "Loading PyTorch models..."
MSG_LOADED == "[ok] PyTorch models loaded"
MSG_LOAD_FAIL == "[fail] Failed to load PyTorch models"
MSG_YOLO_START == "Converting YOLO model..."
MSG_YOLO_OK == "[ok] YOLO model converted successfully"
MSG_YOLO_NOT_FOUND == "[fail] YOLO ONNX file not found after export"
MSG_YOLO_FAIL == "[fail] Failed to convert YOLO model"
MSG_CLIP_START == "Converting CLIP ViT model..."
MSG_CLIP_OK == "[ok] CLIP ViT models converted successfully"
MSG_CLIP_FAIL == "[fail] Failed to convert CLIP ViT model"
MSG_CLIPSEG_START == "Converting CLIPSeg model..."
MSG_CLIPSEG_OK == "[ok] CLIPSeg model converted successfully"
MSG_CLIPSEG_FAIL == "[fail] Failed to convert CLIPSeg model"
MSG_CONFIG_SAVED == "[ok] Model configuration saved"
MSG_COMPLETED == "Model conversion completed!"
MSG_SAVED_TO == "Models saved to"
MSG_NEXT_STEPS == "Next steps:"
MSG_STEP_1 == "1. Copy the browser-extension folder to your preferred location"
MSG_STEP_2 == "2. Load the extension in Chrome/Edge developer mode"
MSG_STEP_3 == "3. Test on reCAPTCHA demo sites"

Outcome == {"ok", "raise"}

\* Outcomes of the imports at module load: all succeed; a guarded import
\* (lines 17-19) raises ImportError; or an exception the guard does not
\* catch is raised: the unguarded import torch / import numpy (lines 8-9)
\* fails, or a guarded import raises something other than ImportError.
ImportOutcome == {"ok", "ImportError", "uncaught"}

\* ------------------------------------------------------------- tensors
NoTensor == [shape |-> <<>>, elems |-> <<>>, dtype |-> "none"]

\* torch.randn: unconstrained samples (here within [-2, 2])
torch_randn(shape) ==
    { [shape |-> shape, elems |-> e, dtype |-> "float32"] :
        e \in [1..NSamples -> (0 - 2 * Den)..(2 * Den)] }

\* torch.rand: uniform samples k / Den with 0 <= k < Den, i.e. in [0, 1)
torch_rand(shape) ==
    { [shape |-> shape, elems |-> e, dtype |-> "float32"] :
        e \in [1..NSamples -> 0..(Den - 1)] }

\* ------------------------------------------------------- label configuration
yolo_classes ==
    <<"person", "bicycle", "car", "motorcycle", "airplane", "bus", "train", "truck", "boat",
      "traffic light", "fire hydrant", "stop sign", "parking meter", "bench", "bird", "cat",
      "dog", "horse", "sheep", "cow", "elephant", "bear", "zebra", "giraffe", "backpack",
      "umbrella", "handbag", "tie", "suitcase", "frisbee", "skis", "snowboard", "sports ball",
      "kite", "baseball bat", "baseball glove", "skateboard", "surfboard", "tennis racket",
      "bottle", "wine glass", "cup", "fork", "knife", "spoon", "bowl", "banana", "apple",
      "sandwich", "orange", "broccoli", "carrot", "hot dog", "pizza", "donut", "cake",
      "chair", "couch", "potted plant", "bed", "dining table", "toilet", "tv", "laptop",
      "mouse", "remote", "keyboard", "cell phone", "microwave", "oven", "toaster", "sink",
      "refrigerator", "book", "clock", "vase", "scissors", "teddy bear", "hair drier", "toothbrush">>

\* descriptors with a vision path the exporter never writes
models_mismatch ==
    [yolo        |-> [path |-> <<"models", "yolo11m-seg.onnx">>, input_size |-> <<640, 640>>,
                      classes |-> yolo_classes],
     clip_vision |-> [path |-> <<"models", "clip_vision.onnx">>, input_size |-> <<224, 224>>],
     clip_text   |-> [path |-> <<"models", "clip_text_encoder.onnx">>, vocab_size |-> 49408],
     clipseg     |-> [path |-> <<"models", "clipseg.onnx">>, input_size |-> <<352, 352>>]]

\* "models/<name>" as path components
models ==
    [yolo        |-> [path |-> <<"models", "yolo11m-seg.onnx">>, input_size |-> <<640, 640>>,
                      classes |-> yolo_classes],
     clip_vision |-> [path |-> <<"models", "clip_vision_encoder.onnx">>, input_size |-> <<224, 224>>],
     clip_text   |-> [path |-> <<"models", "clip_text_encoder.onnx">>, vocab_size |-> 49408],
     clipseg     |-> [path |-> <<"models", "clipseg.onnx">>, input_size |-> <<352, 352>>]]

yolo_alias ==
    ("bicycle" :> <<"bicycle">>) @@
    ("car" :> <<"car", "truck">>) @@
    ("bus" :> <<"bus", "truck">>) @@
    ("motorcycle" :> <<"motorcycle">>) @@
    ("boat" :> <<"boat">>) @@
    ("fire hydrant" :> <<"fire hydrant", "parking meter">>) @@
    ("parking meter" :> <<"fire hydrant", "parking meter">>) @@
    ("traffic light" :> <<"traffic light">>)

clip_labels ==
    <<"bicycle", "boat", "bus", "car", "fire hydrant", "motorcycle", "traffic light",
      "bridge", "chimney", "crosswalk", "mountain", "palm tree", "stair", "tractor", "taxi">>

\* the table with "hills" left unmapped to its canonical category
challenge_alias_plural ==
    ("car" :> "car") @@ ("cars" :> "car") @@ ("vehicles" :> "car") @@
    ("taxis" :> "taxi") @@ ("taxi" :> "taxi") @@
    ("bus" :> "bus") @@ ("buses" :> "bus") @@
    ("motorcycle" :> "motorcycle") @@ ("motorcycles" :> "motorcycle") @@
    ("bicycle" :> "bicycle") @@ ("bicycles" :> "bicycle") @@
    ("boats" :> "boat") @@ ("boat" :> "boat") @@
    ("tractors" :> "tractor") @@ ("tractor" :> "tractor") @@
    ("stairs" :> "stair") @@ ("stair" :> "stair") @@
    ("palm trees" :> "palm tree") @@ ("palm tree" :> "palm tree") @@
    ("fire hydrants" :> "fire hydrant") @@ ("a fire hydrant" :> "fire hydrant") @@
    ("fire hydrant" :> "fire hydrant") @@
    ("parking meters" :> "parking meter") @@ ("parking meter" :> "parking meter") @@
    ("crosswalks" :> "crosswalk") @@ ("crosswalk" :> "crosswalk") @@
    ("traffic lights" :> "traffic light") @@ ("traffic light" :> "traffic light") @@
    ("bridges" :> "bridge") @@ ("bridge" :> "bridge") @@
    ("mountains or hills" :> "mountain") @@ ("mountain or hill" :> "mountain") @@
    ("mountain" :> "mountain") @@
    ("mountains" :> "mountain") @@ ("hills" :> "hills") @@ ("hill" :> "mountain") @@
    ("chimney" :> "chimney") @@ ("chimneys" :> "chimney")

challenge_alias ==
    ("car" :> "car") @@ ("cars" :> "car") @@ ("vehicles" :> "car") @@
    ("taxis" :> "taxi") @@ ("taxi" :> "taxi") @@
    ("bus" :> "bus") @@ ("buses" :> "bus") @@
    ("motorcycle" :> "motorcycle") @@ ("motorcycles" :> "motorcycle") @@
    ("bicycle" :> "bicycle") @@ ("bicycles" :> "bicycle") @@
    ("boats" :> "boat") @@ ("boat" :> "boat") @@
    ("tractors" :> "tractor") @@ ("tractor" :> "tractor") @@
    ("stairs" :> "stair") @@ ("stair" :> "stair") @@
    ("palm trees" :> "palm tree") @@ ("palm tree" :> "palm tree") @@
    ("fire hydrants" :> "fire hydrant") @@ ("a fire hydrant" :> "fire hydrant") @@
    ("fire hydrant" :> "fire hydrant") @@
    ("parking meters" :> "parking meter") @@ ("parking meter" :> "parking meter") @@
    ("crosswalks" :> "crosswalk") @@ ("crosswalk" :> "crosswalk") @@
    ("traffic lights" :> "traffic light") @@ ("traffic light" :> "traffic light") @@
    ("bridges" :> "bridge") @@ ("bridge" :> "bridge") @@
    ("mountains or hills" :> "mountain") @@ ("mountain or hill" :> "mountain") @@
    ("mountain" :> "mountain") @@
    ("mountains" :> "mountain") @@ ("hills" :> "mountain") @@ ("hill" :> "mountain") @@
    ("chimney" :> "chimney") @@ ("chimneys" :> "chimney")

\* the thresholds are kept as their decimal literals
thresholds ==
    ("bridge" :> "0.7285372716747225") @@
    ("chimney" :> "0.7918647485226393") @@
    ("crosswalk" :> "0.8879293048381806") @@
    ("mountain" :> "0.5551278884819476") @@
    ("palm tree" :> "0.8093279512040317") @@
    ("stair" :> "0.9112694561691023") @@
    ("tractor" :> "0.9385110986077537") @@
    ("taxi" :> "0.7967491503432393")

config ==
    [models |-> models,
     labels |-> [yolo_alias |-> yolo_alias,
                 clip_labels |-> clip_labels,
                 challenge_alias |-> challenge_alias,
                 thresholds |-> thresholds]]

NoConfig == {}

Range(f) == { f[x] : x \in DOMAIN f }
basename(p) == p[Len(p)]

VARIABLES
    pc,            \* position of the script
    stdout,        \* sequence of printed messages
    calls,         \* sequence of library calls attempted
    cwd_yolo,      \* TRUE iff ./yolo11m-seg.onnx exists
    outdir,        \* names of the files present in the output directory
    written,       \* names of the files this run put into the output directory
    config_file,   \* document dumped to config.json, NoConfig before
    exit_code,     \* process exit status set by sys.exit, -1 while running
    dummy_images,  \* placeholder of convert_clip_vit_model
    dummy_image,   \* placeholder of convert_clipseg_model
    t_shape,       \* test: shape under test
    t_tensor,      \* test: dummy_tensor
    t_array,       \* test: np_array (after squeeze/permute)
    t_uint8,       \* test: uint8_array
    t_size,        \* test: pil_image.size
    t_pc           \* test: position

vars == <<pc, stdout, calls, cwd_yolo, outdir, written, config_file, exit_code,
          dummy_images, dummy_image,
          t_shape, t_tensor, t_array, t_uint8, t_size, t_pc>>

pipeVars == <<pc, stdout, calls, cwd_yolo, outdir, written, config_file, exit_code,
              dummy_images, dummy_image>>
testVars == <<t_shape, t_tensor, t_array, t_uint8, t_size, t_pc>>

\* ------------------------------------------------------------ pipeline
GraphFiles == {YOLO_ONNX, CLIP_TEXT_ONNX, CLIP_VISION_ONNX, CLIPSEG_ONNX}

Call(fn, target) == [fn |-> fn, target |-> target]

\* Result of one export method: the messages it prints, the library calls it
\* attempts, the files it puts into the output directory, the state of
\* ./yolo11m-seg.onnx afterwards, and whether an exception leaves the method.
Result(out, cs, files, cwd, raised) ==
    [out |-> out, calls |-> cs, files |-> files, cwd |-> cwd, raised |-> raised]

\* convert_yolo_model without the exists() check before the success message
convert_yolo_model_run_nocheck(cwd, load, export, creates, rename) ==
    LET c1 == <<Call("YOLO", "yolo11m-seg.pt")>>
        c2 == Append(c1, Call("YOLO.export", "onnx"))
        c3 == Append(c2, Call("Path.rename", YOLO_ONNX))
        exists == cwd \/ creates
    IN  IF load = "raise"
        THEN Result(<<MSG_YOLO_START, MSG_YOLO_FAIL>>, c1, {}, cwd, FALSE)
        ELSE IF export = "raise"
        THEN Result(<<MSG_YOLO_START, MSG_YOLO_FAIL>>, c2, {}, cwd, FALSE)
        ELSE IF ~exists
        THEN Result(<<MSG_YOLO_START, MSG_YOLO_OK>>, c2, {}, FALSE, FALSE)
        ELSE IF rename = "raise"
        THEN Result(<<MSG_YOLO_START, MSG_YOLO_FAIL>>, c3, {}, TRUE, FALSE)
        ELSE Result(<<MSG_YOLO_START, MSG_YOLO_OK>>, c3, {YOLO_ONNX}, FALSE, FALSE)

\* convert_yolo_model without its try/except: an exception leaves the method
convert_yolo_model_run_nocatch(cwd, load, export, creates, rename) ==
    LET c1 == <<Call("YOLO", "yolo11m-seg.pt")>>
        c2 == Append(c1, Call("YOLO.export", "onnx"))
        c3 == Append(c2, Call("Path.rename", YOLO_ONNX))
        exists == cwd \/ creates
    IN  IF load = "raise"
        THEN Result(<<MSG_YOLO_START>>, c1, {}, cwd, TRUE)
        ELSE IF export = "raise"
        THEN Result(<<MSG_YOLO_START>>, c2, {}, cwd, TRUE)
        ELSE IF ~exists
        THEN Result(<<MSG_YOLO_START, MSG_YOLO_NOT_FOUND>>, c2, {}, FALSE, FALSE)
        ELSE IF rename = "raise"
        THEN Result(<<MSG_YOLO_START>>, c3, {}, TRUE, TRUE)
        ELSE Result(<<MSG_YOLO_START, MSG_YOLO_OK>>, c3, {YOLO_ONNX}, FALSE, FALSE)

\* convert_yolo_model.  cwd: ./yolo11m-seg.onnx exists beforehand; creates:
\* a returning model.export leaves its output at ./yolo11m-seg.onnx.
convert_yolo_model_run(cwd, load, export, creates, rename) ==
    LET c1 == <<Call("YOLO", "yolo11m-seg.pt")>>
        c2 == Append(c1, Call("YOLO.export", "onnx"))
        c3 == Append(c2, Call("Path.rename", YOLO_ONNX))
        exists == cwd \/ creates
    IN  IF load = "raise"
        THEN Result(<<MSG_YOLO_START, MSG_YOLO_FAIL>>, c1, {}, cwd, FALSE)
        ELSE IF export = "raise"
        THEN Result(<<MSG_YOLO_START, MSG_YOLO_FAIL>>, c2, {}, cwd, FALSE)
        ELSE IF ~exists
        THEN Result(<<MSG_YOLO_START, MSG_YOLO_NOT_FOUND>>, c2, {}, FALSE, FALSE)
        ELSE IF rename = "raise"
        THEN Result(<<MSG_YOLO_START, MSG_YOLO_FAIL>>, c3, {}, TRUE, FALSE)
        ELSE Result(<<MSG_YOLO_START, MSG_YOLO_OK>>, c3, {YOLO_ONNX}, FALSE, FALSE)

\* convert_clip_vit_model with each export in a try/except of its own
convert_clip_vit_model_run_separate(cwd, load, proc, text, vision) ==
    LET c1 == <<Call("CLIPModel.from_pretrained", "flavour/CLIP-ViT-B-16-DataComp.XL-s13B-b90K")>>
        c2 == Append(c1, Call("CLIPProcessor", "dummy_images"))
        c3 == Append(c2, Call("torch.onnx.export", CLIP_TEXT_ONNX))
        c4 == Append(c3, Call("torch.onnx.export", CLIP_VISION_ONNX))
        fail == <<MSG_CLIP_START, MSG_CLIP_FAIL>>
        files == (IF text = "ok" THEN {CLIP_TEXT_ONNX} ELSE {})
                   \cup (IF vision = "ok" THEN {CLIP_VISION_ONNX} ELSE {})
    IN  IF load = "raise" THEN Result(fail, c1, {}, cwd, FALSE)
        ELSE IF proc = "raise" THEN Result(fail, c2, {}, cwd, FALSE)
        ELSE IF text = "raise" \/ vision = "raise" THEN Result(fail, c4, files, cwd, FALSE)
        ELSE Result(<<MSG_CLIP_START, MSG_CLIP_OK>>, c4, files, cwd, FALSE)

\* convert_clip_vit_model: load = both from_pretrained calls, proc = the
\* processor call, text / vision = the two torch.onnx.export calls.
convert_clip_vit_model_run(cwd, load, proc, text, vision) ==
    LET c1 == <<Call("CLIPModel.from_pretrained", "flavour/CLIP-ViT-B-16-DataComp.XL-s13B-b90K")>>
        c2 == Append(c1, Call("CLIPProcessor", "dummy_images"))
        c3 == Append(c2, Call("torch.onnx.export", CLIP_TEXT_ONNX))
        c4 == Append(c3, Call("torch.onnx.export", CLIP_VISION_ONNX))
        fail == <<MSG_CLIP_START, MSG_CLIP_FAIL>>
    IN  IF load = "raise" THEN Result(fail, c1, {}, cwd, FALSE)
        ELSE IF proc = "raise" THEN Result(fail, c2, {}, cwd, FALSE)
        ELSE IF text = "raise" THEN Result(fail, c3, {}, cwd, FALSE)
        ELSE IF vision = "raise" THEN Result(fail, c4, {CLIP_TEXT_ONNX}, cwd, FALSE)
        ELSE Result(<<MSG_CLIP_START, MSG_CLIP_OK>>, c4,
                    {CLIP_TEXT_ONNX, CLIP_VISION_ONNX}, cwd, FALSE)

\* convert_clipseg_model
convert_clipseg_model_run(cwd, load, proc, export) ==
    LET c1 == <<Call("CLIPSegForImageSegmentation.from_pretrained", "CIDAS/clipseg-rd64-refined")>>
        c2 == Append(c1, Call("CLIPSegProcessor", "dummy_image"))
        c3 == Append(c2, Call("torch.onnx.export", CLIPSEG_ONNX))
        fail == <<MSG_CLIPSEG_START, MSG_CLIPSEG_FAIL>>
    IN  IF load = "raise" THEN Result(fail, c1, {}, cwd, FALSE)
        ELSE IF proc = "raise" THEN Result(fail, c2, {}, cwd, FALSE)
        ELSE IF export = "raise" THEN Result(fail, c3, {}, cwd, FALSE)
        ELSE Result(<<MSG_CLIPSEG_START, MSG_CLIPSEG_OK>>, c3, {CLIPSEG_ONNX}, cwd, FALSE)

\* convert_all with save_model_config called before convert_clipseg_model
convert_all_next_early(p) ==
    CASE p = "convert_yolo_model" -> "convert_clip_vit_model"
      [] p = "convert_clip_vit_model" -> "save_model_config"
      [] p = "save_model_config" -> "convert_clipseg_model"
      [] p = "convert_clipseg_model" -> "completed"

\* the statement of convert_all that follows statement p
convert_all_next(p) ==
    CASE p = "convert_yolo_model" -> "convert_clip_vit_model"
      [] p = "convert_clip_vit_model" -> "convert_clipseg_model"
      [] p = "convert_clipseg_model" -> "save_model_config"
      [] p = "save_model_config" -> "completed"

\* convert_all without the return in the except branch
check_loaded_next_continue(outcome) == "convert_yolo_model"

\* where convert_all goes after detection_models.check_loaded()
check_loaded_next(outcome) ==
    IF outcome = "ok" THEN "convert_yolo_model" ELSE "returned"

Apply(r) ==
    /\ stdout' = stdout \o r.out
    /\ calls' = calls \o r.calls
    /\ outdir' = outdir \cup r.files
    /\ written' = written \cup r.files
    /\ cwd_yolo' = r.cwd
    /\ pc' = IF r.raised THEN "traceback" ELSE convert_all_next(pc)

PipeInit ==
    /\ pc = "import"
    /\ stdout = <<>>
    /\ calls = <<>>
    /\ cwd_yolo \in BOOLEAN
    /\ outdir \in {{}, GraphFiles \cup {CONFIG_JSON}}
    /\ written = {}
    /\ config_file = NoConfig
    /\ exit_code = -1
    /\ dummy_images = NoTensor
    /\ dummy_image = NoTensor

\* lines 6-24: the imports; only ImportError from lines 17-19 is handled
module_import ==
    /\ pc = "import"
    /\ \E outcome \in ImportOutcome :
         CASE outcome = "ok" ->
                /\ pc' = "__main__"
                /\ UNCHANGED <<stdout, exit_code>>
           [] outcome = "ImportError" ->
                /\ stdout' = stdout \o <<MSG_IMPORT_ERROR, MSG_IMPORT_HINT, MSG_IMPORT_PIP>>
                /\ exit_code' = 1
                /\ pc' = "exit"
           [] outcome = "uncaught" ->
                /\ pc' = "traceback"
                /\ UNCHANGED <<stdout, exit_code>>
    /\ UNCHANGED <<calls, cwd_yolo, outdir, written, config_file, dummy_images, dummy_image>>
    /\ UNCHANGED testVars

\* ModelConverter.__init__ (called from __main__)
ModelConverter_init ==
    /\ pc = "__main__"
    /\ stdout' = Append(stdout, MSG_OUTPUT_DIR)
    /\ pc' = "convert_all"
    /\ UNCHANGED <<calls, cwd_yolo, outdir, written, config_file, exit_code,
                   dummy_images, dummy_image>>
    /\ UNCHANGED testVars

\* convert_all up to the preload check
convert_all ==
    /\ pc = "convert_all"
    /\ \E outcome \in Outcome :
         /\ stdout' = stdout \o <<MSG_START, MSG_LOADING>>
                        \o (IF outcome = "ok" THEN <<MSG_LOADED>> ELSE <<MSG_LOAD_FAIL>>)
         /\ calls' = Append(calls, Call("detection_models.check_loaded", ""))
         /\ pc' = check_loaded_next(outcome)
    /\ UNCHANGED <<cwd_yolo, outdir, written, config_file, exit_code,
                   dummy_images, dummy_image>>
    /\ UNCHANGED testVars

convert_yolo_model ==
    /\ pc = "convert_yolo_model"
    /\ \E load \in Outcome, export \in Outcome, creates \in BOOLEAN, rename \in Outcome :
         Apply(convert_yolo_model_run(cwd_yolo, load, export, creates, rename))
    /\ UNCHANGED <<config_file, exit_code, dummy_images, dummy_image>>
    /\ UNCHANGED testVars

convert_clip_vit_model ==
    /\ pc = "convert_clip_vit_model"
    /\ \E load \in Outcome, proc \in Outcome, text \in Outcome, vision \in Outcome :
         /\ Apply(convert_clip_vit_model_run(cwd_yolo, load, proc, text, vision))
         /\ IF load = "ok"
            THEN dummy_images' \in torch_rand(CLIP_SHAPE)
            ELSE dummy_images' = dummy_images
    /\ UNCHANGED <<config_file, exit_code, dummy_image>>
    /\ UNCHANGED testVars

convert_clipseg_model ==
    /\ pc = "convert_clipseg_model"
    /\ \E load \in Outcome, proc \in Outcome, export \in Outcome :
         /\ Apply(convert_clipseg_model_run(cwd_yolo, load, proc, export))
         /\ IF load = "ok"
            THEN dummy_image' \in torch_rand(CLIPSEG_SHAPE)
            ELSE dummy_image' = dummy_image
    /\ UNCHANGED <<config_file, exit_code, dummy_images>>
    /\ UNCHANGED testVars

save_model_config ==
    /\ pc = "save_model_config"
    /\ config_file' = {config}
    /\ outdir' = outdir \cup {CONFIG_JSON}
    /\ written' = written \cup {CONFIG_JSON}
    /\ stdout' = Append(stdout, MSG_CONFIG_SAVED)
    /\ pc' = convert_all_next(pc)
    /\ UNCHANGED <<calls, cwd_yolo, exit_code, dummy_images, dummy_image>>
    /\ UNCHANGED testVars

\* the closing prints of convert_all
convert_all_completed ==
    /\ pc = "completed"
    /\ stdout' = stdout \o <<MSG_COMPLETED, MSG_SAVED_TO, MSG_NEXT_STEPS,
                               MSG_STEP_1, MSG_STEP_2, MSG_STEP_3>>
    /\ pc' = "done"
    /\ UNCHANGED <<calls, cwd_yolo, outdir, written, config_file, exit_code,
                   dummy_images, dummy_image>>
    /\ UNCHANGED testVars

TestIdle ==
    /\ t_pc = "idle"
    /\ t_shape = <<>>
    /\ t_tensor = NoTensor
    /\ t_array = NoTensor
    /\ t_uint8 = NoTensor
    /\ t_size = <<>>

Init == PipeInit /\ TestIdle

Next ==
    \/ module_import
    \/ ModelConverter_init
    \/ convert_all
    \/ convert_yolo_model
    \/ convert_clip_vit_model
    \/ convert_clipseg_model
    \/ save_model_config
    \/ convert_all_completed

Spec == Init /\ [][Next]_vars

\* --------------------------------------------- tensor-to-image conversion
\* (tests/test_convert_models_fix.py, test_pil_image_conversion_compatibility)
TestShapes == {CLIP_SHAPE, CLIPSEG_SHAPE}

\* the inputs the conversion is specified for: elements in the closed [0, 1]
unit_tensors(shape) ==
    { [shape |-> shape, elems |-> e, dtype |-> "float32"] :
        e \in [1..TestSamples -> 0..Den] }

\* Tensor.squeeze(d): drop dimension d (counted from 0) when its size is 1
squeeze(t, d) ==
    IF t.shape[d + 1] = 1
    THEN [t EXCEPT !.shape = [i \in 1..(Len(t.shape) - 1) |->
                                 IF i <= d THEN t.shape[i] ELSE t.shape[i + 1]]]
    ELSE t

\* Tensor.permute(dims): dims counted from 0
permute(t, dims) ==
    [t EXCEPT !.shape = [i \in 1..Len(dims) |-> t.shape[dims[i] + 1]]]

\* np_array * c: an element num / Den becomes (c * num) / Den
multiply(t, c) ==
    [t EXCEPT !.elems = [i \in DOMAIN t.elems |-> c * t.elems[i]]]

\* float to integer conversion truncates toward zero
trunc(n) == IF n >= 0 THEN n \div Den ELSE 0 - ((0 - n) \div Den)

\* astype(np.int8): 8-bit two's complement
astype_int8(t) ==
    [t EXCEPT !.elems = [i \in DOMAIN t.elems |-> ((trunc(t.elems[i]) + 128) % 256) - 128],
              !.dtype = "int8"]

\* astype(np.uint8): truncate, keep the low 8 bits; elements become integers
astype_uint8(t) ==
    [t EXCEPT !.elems = [i \in DOMAIN t.elems |-> trunc(t.elems[i]) % 256],
              !.dtype = "uint8"]

\* Image.fromarray accepts an (H, W, 3) uint8 array (mode RGB)
fromarray_ok(arr) ==
    arr.dtype = "uint8" /\ Len(arr.shape) = 3 /\ arr.shape[3] = 3

\* Image.size is (width, height) = (columns, rows)
image_size(arr) == <<arr.shape[2], arr.shape[1]>>

PipeIdle ==
    /\ pc = "idle"
    /\ stdout = <<>>
    /\ calls = <<>>
    /\ cwd_yolo = FALSE
    /\ outdir = {}
    /\ written = {}
    /\ config_file = NoConfig
    /\ exit_code = -1
    /\ dummy_images = NoTensor
    /\ dummy_image = NoTensor

TestInit ==
    /\ t_pc = "tensor"
    /\ t_shape \in TestShapes
    /\ t_tensor \in unit_tensors(t_shape)
    /\ t_array = NoTensor
    /\ t_uint8 = NoTensor
    /\ t_size = <<>>

\* np_array = dummy_tensor.squeeze(0).permute(1, 2, 0).numpy()
test_to_numpy ==
    /\ t_pc = "tensor"
    /\ t_array' = permute(squeeze(t_tensor, 0), <<1, 2, 0>>)
    /\ t_pc' = "np_array"
    /\ UNCHANGED <<t_shape, t_tensor, t_uint8, t_size>>
    /\ UNCHANGED pipeVars

\* uint8_array = (np_array * 255).astype(np.uint8)
test_to_uint8 ==
    /\ t_pc = "np_array"
    /\ t_uint8' = astype_uint8(multiply(t_array, 255))
    /\ t_pc' = "uint8_array"
    /\ UNCHANGED <<t_shape, t_tensor, t_array, t_size>>
    /\ UNCHANGED pipeVars

\* pil_image = Image.fromarray(uint8_array)
test_fromarray ==
    /\ t_pc = "uint8_array"
    /\ IF fromarray_ok(t_uint8)
       THEN t_size' = image_size(t_uint8) /\ t_pc' = "pil_image"
       ELSE t_size' = t_size /\ t_pc' = "TypeError"
    /\ UNCHANGED <<t_shape, t_tensor, t_array, t_uint8>>
    /\ UNCHANGED pipeVars

InitPixel == PipeIdle /\ TestInit

NextPixel ==
    \/ test_to_numpy
    \/ test_to_uint8
    \/ test_fromarray

SpecPixel == InitPixel /\ [][NextPixel]_vars

\* ================================================================ claims
Printed(m) == \E i \in DOMAIN stdout : stdout[i] = m
Called(fn, target) == \E i \in DOMAIN calls : calls[i] = Call(fn, target)
Ended == pc \in {"done", "returned", "exit", "traceback"}
AfterYolo == pc \in {"convert_clip_vit_model", "convert_clipseg_model",
                      "save_model_config", "completed", "done"}
YoloFinished == Printed(MSG_YOLO_OK) \/ Printed(MSG_YOLO_FAIL) \/ Printed(MSG_YOLO_NOT_FOUND)
ClipFinished == Printed(MSG_CLIP_OK) \/ Printed(MSG_CLIP_FAIL)
ClipsegFinished == Printed(MSG_CLIPSEG_OK) \/ Printed(MSG_CLIPSEG_FAIL)
AllSucceeded == Printed(MSG_YOLO_OK) /\ Printed(MSG_CLIP_OK) /\ Printed(MSG_CLIPSEG_OK)
ConfigWritten == CONFIG_JSON \in written
Keys(f) == DOMAIN f

\* C1: once the preload check has succeeded, no exception leaves an export,
\* and a run that has ended has attempted the YOLO, the CLIP ViT and the
\* CLIPSeg export, each of which ended with its success or its failure message.
C1_ExportsIsolated ==
    Printed(MSG_LOADED) =>
        /\ pc # "traceback"
        /\ Ended =>
             /\ Printed(MSG_YOLO_START) /\ Called("YOLO", "yolo11m-seg.pt") /\ YoloFinished
             /\ Printed(MSG_CLIP_START)
             /\ Called("CLIPModel.from_pretrained", "flavour/CLIP-ViT-B-16-DataComp.XL-s13B-b90K")
             /\ ClipFinished
             /\ Printed(MSG_CLIPSEG_START)
             /\ Called("CLIPSegForImageSegmentation.from_pretrained", "CIDAS/clipseg-rd64-refined")
             /\ ClipsegFinished

\* all three exports failed and the run still reached its end
C1_Witness ==
    /\ pc = "done"
    /\ Printed(MSG_YOLO_FAIL) /\ Printed(MSG_CLIP_FAIL) /\ Printed(MSG_CLIPSEG_FAIL)

\* C2: config.json is written only when the three export attempts have
\* finished, and every run that gets past the exports writes it, whatever
\* the exports' outcomes.
C2_ConfigAfterExports ==
    /\ ConfigWritten => (YoloFinished /\ ClipFinished /\ ClipsegFinished)
    /\ (ConfigWritten \/ config_file # NoConfig) => Printed(MSG_CONFIG_SAVED)
    /\ (pc \in {"completed", "done"}) =>
          (ConfigWritten /\ CONFIG_JSON \in outdir /\ config_file = {config})
    /\ (Printed(MSG_LOADED) /\ Ended) => ConfigWritten

\* config.json written after a mix of successes and a failure
C2_Witness ==
    /\ ConfigWritten
    /\ Printed(MSG_YOLO_OK) /\ Printed(MSG_CLIP_FAIL) /\ Printed(MSG_CLIPSEG_OK)

\* C3 as stated: a run in which every export succeeds leaves exactly three
\* inference-graph files (and config.json); no run writes another graph file.
C3_Original ==
    (pc = "done" /\ AllSucceeded) =>
        /\ Cardinality(written \ {"config.json"}) = 3
        /\ "config.json" \in written

\* C3 amended: a run in which every export succeeds leaves exactly the four
\* graph files yolo11m-seg.onnx, clip_text_encoder.onnx,
\* clip_vision_encoder.onnx and clipseg.onnx plus config.json in the output
\* directory, and no run writes a graph file other than those four.
C3_FourGraphFiles ==
    /\ (pc = "done" /\ AllSucceeded) =>
          /\ written = {"yolo11m-seg.onnx", "clip_text_encoder.onnx",
                        "clip_vision_encoder.onnx", "clipseg.onnx", "config.json"}
          /\ outdir = written
    /\ (written \ {"config.json"}) \subseteq
          {"yolo11m-seg.onnx", "clip_text_encoder.onnx",
           "clip_vision_encoder.onnx", "clipseg.onnx"}

\* an all-success run into an empty output directory has ended
C3_Witness ==
    pc = "done" /\ AllSucceeded /\ Cardinality(outdir) = 5 /\ Cardinality(written) = 5

\* C4: every element of the (1,3,224,224) placeholder of the CLIP ViT export
\* and of the (1,3,352,352) placeholder of the CLIPSeg export lies in [0,1].
C4_PlaceholderRange ==
    /\ \A i \in DOMAIN dummy_images.elems :
          0 <= dummy_images.elems[i] /\ dummy_images.elems[i] <= Den
    /\ \A i \in DOMAIN dummy_image.elems :
          0 <= dummy_image.elems[i] /\ dummy_image.elems[i] <= Den
    /\ dummy_images # NoTensor => dummy_images.shape = <<1, 3, 224, 224>>
    /\ dummy_image # NoTensor => dummy_image.shape = <<1, 3, 352, 352>>

\* both placeholders generated, one with its largest, one with its smallest value
C4_Witness ==
    /\ dummy_images # NoTensor /\ dummy_image # NoTensor
    /\ \E i \in DOMAIN dummy_images.elems : dummy_images.elems[i] = Den - 1
    /\ \E i \in DOMAIN dummy_image.elems : dummy_image.elems[i] = 0

\* C5: for an element v = num/Den in [0,1] the 8-bit pixel is the integer
\* part of v * 255, a value in [0,255] (nothing wraps), Image.fromarray
\* accepts the array, and the image is as wide and as high as the
\* placeholder's last two dimensions.
C5_PixelConversion ==
    /\ t_pc # "TypeError"
    /\ t_pc \in {"uint8_array", "pil_image"} =>
          \A i \in DOMAIN t_tensor.elems :
             (0 <= t_tensor.elems[i] /\ t_tensor.elems[i] <= Den) =>
                 /\ 0 <= t_uint8.elems[i] /\ t_uint8.elems[i] <= 255
                 /\ t_uint8.elems[i] * Den <= 255 * t_tensor.elems[i]
                 /\ 255 * t_tensor.elems[i] < (t_uint8.elems[i] + 1) * Den
    /\ t_pc = "pil_image" => t_size = <<t_shape[4], t_shape[3]>>

\* an image made from a 352x352 placeholder holding the value 1.0
C5_Witness ==
    /\ t_pc = "pil_image"
    /\ t_shape = <<1, 3, 352, 352>>
    /\ t_size = <<352, 352>>
    /\ \E i \in DOMAIN t_tensor.elems : t_tensor.elems[i] = Den /\ t_uint8.elems[i] = 255

\* C6 as stated: every key of yolo_alias, every category challenge_alias maps
\* to and every key of thresholds is a member of clip_labels.
C6_Original ==
    \A doc \in config_file :
        (Keys(doc.labels.yolo_alias) \cup Range(doc.labels.challenge_alias)
            \cup Keys(doc.labels.thresholds)) \subseteq Range(doc.labels.clip_labels)

\* C6 amended: every key of thresholds is a member of clip_labels, and every
\* key of yolo_alias and every category challenge_alias maps to is a member
\* of clip_labels, except "parking meter", which is a class of the detector
\* (models.yolo.classes) and not a member of clip_labels.
C6_LabelsRecognized ==
    \A doc \in config_file :
        /\ Keys(doc.labels.thresholds) \subseteq Range(doc.labels.clip_labels)
        /\ (Keys(doc.labels.yolo_alias) \cup Range(doc.labels.challenge_alias))
              \subseteq (Range(doc.labels.clip_labels) \cup {"parking meter"})
        /\ "parking meter" \in Keys(doc.labels.yolo_alias)
        /\ "parking meter" \in Range(doc.labels.challenge_alias)
        /\ "parking meter" \in Range(doc.models.yolo.classes)
        /\ "parking meter" \notin Range(doc.labels.clip_labels)

\* the configuration has been emitted
C6_Witness ==
    /\ Printed(MSG_CONFIG_SAVED)
    /\ \E doc \in config_file : "taxi" \in Keys(doc.labels.thresholds)

\* C7: when model.export returned and yolo11m-seg.onnx was not found, the
\* not-found failure is logged, nothing is moved, the success message is not
\* printed and the run goes on to the CLIP ViT export; the success message
\* is printed only with the file moved into the output directory.
C7_YoloNotFound ==
    /\ (Called("YOLO.export", "onnx") /\ ~Called("Path.rename", "yolo11m-seg.onnx")
          /\ ~Printed(MSG_YOLO_FAIL)) => Printed(MSG_YOLO_NOT_FOUND)
    /\ Printed(MSG_YOLO_NOT_FOUND) =>
          /\ "yolo11m-seg.onnx" \notin written
          /\ ~Called("Path.rename", "yolo11m-seg.onnx")
          /\ ~Printed(MSG_YOLO_OK)
          /\ AfterYolo
          /\ (pc # "convert_clip_vit_model" => Printed(MSG_CLIP_START))
    /\ Printed(MSG_YOLO_OK) =>
          /\ "yolo11m-seg.onnx" \in written
          /\ "yolo11m-seg.onnx" \in outdir
          /\ Called("Path.rename", "yolo11m-seg.onnx")
          /\ ~cwd_yolo

\* the file was not found and the CLIP ViT export has been attempted
C7_Witness ==
    Printed(MSG_YOLO_NOT_FOUND) /\ Printed(MSG_CLIP_START) /\ ~Printed(MSG_YOLO_OK)

\* C8: when check_loaded raises, the failure is logged and convert_all
\* returns: no export is attempted, config.json is not written and the
\* completion message is not printed.
C8_PreloadAbort ==
    Printed(MSG_LOAD_FAIL) =>
        /\ pc = "returned"
        /\ ~Printed(MSG_YOLO_START) /\ ~Printed(MSG_CLIP_START) /\ ~Printed(MSG_CLIPSEG_START)
        /\ calls = <<Call("detection_models.check_loaded", "")>>
        /\ written = {}
        /\ config_file = NoConfig
        /\ ~Printed(MSG_CONFIG_SAVED)
        /\ ~Printed(MSG_COMPLETED)

\* the preload check has failed
C8_Witness == Printed(MSG_LOAD_FAIL) /\ pc = "returned" /\ ~Printed(MSG_LOADED)

TextAttempted == Called("torch.onnx.export", "clip_text_encoder.onnx")
VisionAttempted == Called("torch.onnx.export", "clip_vision_encoder.onnx")

\* C9: the vision-encoder export is attempted only after the text-encoder
\* export has succeeded; a failed text export leaves the vision export
\* unattempted and clip_vision_encoder.onnx unwritten; a failed vision export
\* leaves clip_text_encoder.onnx written; in both cases the CLIP success
\* message is not printed and the CLIPSeg export is still attempted.
C9_ClipTextThenVision ==
    /\ VisionAttempted => (TextAttempted /\ "clip_text_encoder.onnx" \in written)
    /\ (TextAttempted /\ "clip_text_encoder.onnx" \notin written) =>
          /\ ~VisionAttempted
          /\ "clip_vision_encoder.onnx" \notin written
          /\ ~Printed(MSG_CLIP_OK) /\ Printed(MSG_CLIP_FAIL)
    /\ (VisionAttempted /\ "clip_vision_encoder.onnx" \notin written) =>
          /\ "clip_text_encoder.onnx" \in written
          /\ "clip_text_encoder.onnx" \in outdir
          /\ ~Printed(MSG_CLIP_OK) /\ Printed(MSG_CLIP_FAIL)
    /\ Printed(MSG_CLIP_FAIL) =>
          /\ pc \in {"convert_clipseg_model", "save_model_config", "completed", "done"}
          /\ (pc # "convert_clipseg_model" => Printed(MSG_CLIPSEG_START))

\* the text export failed and the CLIPSeg export has been attempted
C9_Witness ==
    /\ TextAttempted /\ "clip_text_encoder.onnx" \notin written
    /\ Printed(MSG_CLIPSEG_START)

\* C10: after a run in which every export succeeded, every model path of the
\* configuration is models/<name> with <name> a file the converter wrote
\* into the output directory (whose last component is models), and every
\* graph file written is the path of exactly one model descriptor.
C10_PathsMatchFiles ==
    (pc = "done" /\ AllSucceeded) =>
        \A doc \in config_file :
            /\ \A m \in DOMAIN doc.models :
                  /\ Len(doc.models[m].path) = 2
                  /\ doc.models[m].path[1] = basename(OUTPUT_DIR)
                  /\ basename(doc.models[m].path) \in written
            /\ \A f \in written \ {CONFIG_JSON} :
                  Cardinality({m \in DOMAIN doc.models : basename(doc.models[m].path) = f}) = 1

\* all exports succeeded and the emitted vision descriptor names a written file
C10_Witness ==
    /\ pc = "done" /\ AllSucceeded
    /\ \E doc \in config_file : basename(doc.models.clip_vision.path) \in written

====
